---------------------------- MODULE Spec2Model ----------------------------
(***************************************************************************)
(* Product catalog REST service (service/routes.py).                       *)
(*                                                                         *)
(* The HTTP facade of routes.py is modelled handler by handler.  The       *)
(* Product store it calls (service/models.py) and the error handlers       *)
(* (service/common/error_handlers.py) are not part of the sources at hand; *)
(* they are modelled from sections 3, 4.1 and 7 of the specification.      *)
(*                                                                         *)
(* JSON values are tagged records: [t |-> "str", v |-> ...],               *)
(* [t |-> "bool", v |-> ...], [t |-> "num", v |-> ...], [t |-> "null"].    *)
(* The text of a price is a sequence of characters, so that the decimal    *)
(* conversion can be computed; every other string is a TLA+ string.        *)
(* A Python object is a function from the names of its attributes that are *)
(* not None to their values.                                               *)
(***************************************************************************)
EXTENDS Integers, Sequences, FiniteSets, TLC

VARIABLES
    table,      \* the rows of the product table, in storage order
    next_id,    \* the next value of the table's id sequence
    request,    \* the request handled last
    response,   \* the response to it
    before,     \* history: the rows as they were when that request arrived
    written,    \* history: path -> the payload last accepted there (201, 200)
    gone,       \* history: id -> how many DELETEs of it were answered 204
    inflight    \* client -> its DELETE under way, when requests overlap

vars == <<table, next_id, request, response, before, written, gone, inflight>>

---------------------------------------------------------------------------
(* Bounds                                                                  *)

\* at most this many products are ever created
MaxProducts == 2

\* at most this many requests are handled at the same time
MaxClients == 2

---------------------------------------------------------------------------
(* HTTP status codes (service.common.status)                               *)

HTTP_200_OK == 200
HTTP_201_CREATED == 201
HTTP_204_NO_CONTENT == 204
HTTP_400_BAD_REQUEST == 400
HTTP_404_NOT_FOUND == 404
HTTP_415_UNSUPPORTED_MEDIA_TYPE == 415
HTTP_500_INTERNAL_SERVER_ERROR == 500

---------------------------------------------------------------------------
(* JSON values                                                             *)

JStr(s) == [t |-> "str", v |-> s]
JBool(b) == [t |-> "bool", v |-> b]
JNum(n) == [t |-> "num", v |-> n]
JNull == [t |-> "null"]

\* a JSON document is an object (a function from keys to values) or a
\* value of another kind; a body that is no JSON document is "raw"
JObject(o) == [t |-> "object", v |-> o]
RawBody == [t |-> "raw"]

---------------------------------------------------------------------------
(* decimal.Decimal, restricted to unsigned digits with an optional point   *)

Digits == <<"0", "1", "2", "3", "4", "5", "6", "7", "8", "9">>

IsDigit(c) == \E i \in 1..10 : Digits[i] = c

DigitValue(c) == (CHOOSE i \in 1..10 : Digits[i] = c) - 1

\* the characters of s other than the decimal point
RECURSIVE StripPoint(_)
StripPoint(s) ==
    IF s = <<>> THEN <<>>
    ELSE IF Head(s) = "." THEN StripPoint(Tail(s))
    ELSE <<Head(s)>> \o StripPoint(Tail(s))

\* the number of characters after the decimal point (0 without a point)
RECURSIVE FractionDigits(_)
FractionDigits(s) ==
    IF s = <<>> THEN 0
    ELSE IF Head(s) = "." THEN Len(s) - 1
    ELSE FractionDigits(Tail(s))

RECURSIVE DigitsToInt(_)
DigitsToInt(s) ==
    IF s = <<>> THEN 0
    ELSE 10 * DigitsToInt(SubSeq(s, 1, Len(s) - 1)) + DigitValue(s[Len(s)])

RECURSIVE IntToDigits(_)
IntToDigits(n) ==
    IF n < 10 THEN <<Digits[n + 1]>>
    ELSE IntToDigits(n \div 10) \o <<Digits[(n % 10) + 1]>>

RECURSIVE Zeros(_)
Zeros(n) == IF n <= 0 THEN <<>> ELSE <<"0">> \o Zeros(n - 1)

\* Decimal(text) succeeds: digits, at most one point, at least one digit
IsDecimalText(s) ==
    /\ \A i \in 1..Len(s) : IsDigit(s[i]) \/ s[i] = "."
    /\ Len(s) - Len(StripPoint(s)) <= 1
    /\ Len(StripPoint(s)) >= 1

\* Decimal(text): the coefficient and the exponent, as Decimal keeps them
Decimal(s) ==
    [coeff |-> DigitsToInt(StripPoint(s)), exp |-> 0 - FractionDigits(s)]

\* str(Decimal): plain notation (the exponents used here are in -6..0)
DecimalStr(d) ==
    LET digits == IntToDigits(d.coeff)
        scale == 0 - d.exp
    IN  IF scale = 0 THEN digits
        ELSE IF Len(digits) > scale
        THEN SubSeq(digits, 1, Len(digits) - scale) \o <<".">>
                 \o SubSeq(digits, Len(digits) - scale + 1, Len(digits))
        ELSE <<"0", ".">> \o Zeros(scale - Len(digits)) \o digits

---------------------------------------------------------------------------
(* Category enumeration                                                    *)

\* the names of the members
CategoryNames == {"UNKNOWN", "CLOTHS", "FOOD"}

\* the members; a member is not its name, serialize and the lookups convert
Category == [n \in CategoryNames |-> [member |-> n]]

CategoryName(c) == c.member

---------------------------------------------------------------------------
(* Product store (service/models.py), from sections 3 and 4.1              *)

\* Python's None
None == [None |-> TRUE]

DataValidationError == "DataValidationError"
KeyError == "KeyError"

\* the outcome of a call: it returned, or it raised error
Returned(self) == [ok |-> TRUE, error |-> "", product |-> self]
Raised(self, e) == [ok |-> FALSE, error |-> e, product |-> self]

\* self.a = val
SetAttr(self, a, val) ==
    [k \in DOMAIN self \cup {a} |-> IF k = a THEN val ELSE self[k]]

\* Product(): every attribute is None
Product == << >>

\* getattr(Category, name), Category[name]
IsCategoryName(s) == s \in CategoryNames

\* deserialize(data): sets the fields of self from the payload, in place and
\* in the order name, description, price, available, category; the fields
\* before the one that fails stay set on self
deserialize(self, data) ==
    IF data.t # "object" THEN Raised(self, DataValidationError)
    ELSE
    LET d == data.v IN
    IF "name" \notin DOMAIN d \/ d["name"].t # "str"
    THEN Raised(self, DataValidationError)
    ELSE
    LET p1 == SetAttr(self, "name", d["name"].v) IN
    IF "description" \notin DOMAIN d \/ d["description"].t # "str"
    THEN Raised(p1, DataValidationError)
    ELSE
    LET p2 == SetAttr(p1, "description", d["description"].v) IN
    IF \/ "price" \notin DOMAIN d
       \/ d["price"].t # "str"
       \/ ~IsDecimalText(d["price"].v)
    THEN Raised(p2, DataValidationError)
    ELSE
    LET p3 == SetAttr(p2, "price", Decimal(d["price"].v)) IN
    IF "available" \notin DOMAIN d \/ d["available"].t # "bool"
    THEN Raised(p3, DataValidationError)
    ELSE
    LET p4 == SetAttr(p3, "available", d["available"].v) IN
    IF \/ "category" \notin DOMAIN d
       \/ d["category"].t # "str"
       \/ ~IsCategoryName(d["category"].v)
    THEN Raised(p4, DataValidationError)
    ELSE Returned(SetAttr(p4, "category", Category[d["category"].v]))

\* the decimal without the zeros at the end of its fraction
RECURSIVE Normalized(_)
Normalized(d) ==
    IF d.exp < 0 /\ d.coeff % 10 = 0
    THEN Normalized([coeff |-> d.coeff \div 10, exp |-> d.exp + 1])
    ELSE d

\* serialize that emits the price as a number is printed, 12.50 as 12.5
serialize_number(self) ==
    [id |-> IF "id" \in DOMAIN self THEN JNum(self["id"]) ELSE JNull,
     name |-> JStr(self["name"]),
     description |-> JStr(self["description"]),
     price |-> JStr(DecimalStr(Normalized(self["price"]))),
     available |-> JBool(self["available"]),
     category |-> JStr(CategoryName(self["category"]))]

\* serialize(): the external representation of self
serialize(self) ==
    [id |-> IF "id" \in DOMAIN self THEN JNum(self["id"]) ELSE JNull,
     name |-> JStr(self["name"]),
     description |-> JStr(self["description"]),
     price |-> JStr(DecimalStr(self["price"])),
     available |-> JBool(self["available"]),
     category |-> JStr(CategoryName(self["category"]))]

\* the positions of the rows of tbl whose id is id
RowsWithId(tbl, id) == {i \in 1..Len(tbl) : tbl[i]["id"] = id}

\* Product.find(id): the row with that primary key, or None
find(tbl, id) ==
    IF RowsWithId(tbl, id) = {} THEN None
    ELSE tbl[CHOOSE i \in RowsWithId(tbl, id) : TRUE]

\* Product.all()
all(tbl) == tbl

\* Product.find_by_name(name)
find_by_name(tbl, name) ==
    LET Keep(row) == row["name"] = name IN SelectSeq(tbl, Keep)

\* Product.find_by_category(category)
find_by_category(tbl, category) ==
    LET Keep(row) == row["category"] = category IN SelectSeq(tbl, Keep)

\* Product.find_by_availability(available)
find_by_availability(tbl, available) ==
    LET Keep(row) == row["available"] = available IN SelectSeq(tbl, Keep)

\* product.create(): a new id from the sequence, and the row is inserted
create(tbl, nid, self) ==
    LET row == SetAttr(self, "id", nid)
    IN  [table |-> Append(tbl, row), next_id |-> nid + 1, product |-> row]

\* update without the test of the id: nothing to save, no error
update_unchecked(tbl, self) ==
    IF "id" \notin DOMAIN self
    THEN [ok |-> TRUE, error |-> "", table |-> tbl]
    ELSE [ok |-> TRUE, error |-> "",
          table |-> [i \in 1..Len(tbl) |->
                        IF tbl[i]["id"] = self["id"] THEN self ELSE tbl[i]]]

\* product.update(): needs an id; the fields of self replace the row's
update(tbl, self) ==
    IF "id" \notin DOMAIN self
    THEN [ok |-> FALSE, error |-> DataValidationError, table |-> tbl]
    ELSE [ok |-> TRUE, error |-> "",
          table |-> [i \in 1..Len(tbl) |->
                        IF tbl[i]["id"] = self["id"] THEN self ELSE tbl[i]]]

\* product.delete(): the row with the id of self is removed, if there
delete(tbl, self) ==
    LET Keep(row) == row["id"] # self["id"] IN SelectSeq(tbl, Keep)

---------------------------------------------------------------------------
(* Error handlers (service/common/error_handlers.py), from section 7, and  *)
(* the framework's answers                                                 *)

\* the body of '' (204) and the body of an error response
EmptyBody == [t |-> "empty"]
ErrorBody(code) == [t |-> "error", v |-> code]
JArray(a) == [t |-> "array", v |-> a]

NoHeaders == << >>

\* abort(code, message)
abort(code) == [status |-> code, body |-> ErrorBody(code), headers |-> NoHeaders]

\* the response to an exception that leaves a handler: 400 for a
\* validation error, 500 for anything unexpected
error_handler(error) ==
    IF error = DataValidationError
    THEN abort(HTTP_400_BAD_REQUEST)
    ELSE abort(HTTP_500_INTERNAL_SERVER_ERROR)

\* url_for(endpoint, id=id): the path of the route
url_for(endpoint, id) == <<"products", id>>

\* request.get_json(): the document of the body; the framework aborts
\* with 400 (BadRequest) when the body is no JSON
get_json(body) ==
    IF body.t = "raw"
    THEN [ok |-> FALSE, response |-> abort(HTTP_400_BAD_REQUEST), data |-> body]
    ELSE [ok |-> TRUE, response |-> None, data |-> body]

\* the result of a handler that leaves the store as it is
Respond(tbl, nid, resp) == [table |-> tbl, next_id |-> nid, response |-> resp]

---------------------------------------------------------------------------
(* HTTP facade (service/routes.py)                                         *)

\* healthcheck()
healthcheck ==
    [status |-> HTTP_200_OK,
     body |-> JObject([status |-> JNum(200), message |-> JStr("OK")]),
     headers |-> NoHeaders]

\* index(): the static page
index == [status |-> HTTP_200_OK, body |-> [t |-> "html"], headers |-> NoHeaders]

\* check_content_type that looks for the header and not at its value
check_content_type_any(headers, content_type) ==
    IF "Content-Type" \notin DOMAIN headers
    THEN [aborted |-> TRUE, response |-> abort(HTTP_415_UNSUPPORTED_MEDIA_TYPE)]
    ELSE [aborted |-> FALSE, response |-> None]

\* check_content_type(content_type): aborts with 415 unless the request
\* has a Content-Type header equal to content_type
check_content_type(headers, content_type) ==
    IF "Content-Type" \notin DOMAIN headers
    THEN [aborted |-> TRUE, response |-> abort(HTTP_415_UNSUPPORTED_MEDIA_TYPE)]
    ELSE IF headers["Content-Type"] = content_type
    THEN [aborted |-> FALSE, response |-> None]
    ELSE [aborted |-> TRUE, response |-> abort(HTTP_415_UNSUPPORTED_MEDIA_TYPE)]

\* create_products that builds the Location from the id after the new one
create_products_off(tbl, nid, req) ==
    LET checked == check_content_type(req.headers, "application/json") IN
    IF checked.aborted THEN Respond(tbl, nid, checked.response)
    ELSE
    LET json == get_json(req.body) IN
    IF ~json.ok THEN Respond(tbl, nid, json.response)
    ELSE
    LET parsed == deserialize(Product, json.data) IN
    IF ~parsed.ok THEN Respond(tbl, nid, error_handler(parsed.error))
    ELSE
    LET created == create(tbl, nid, parsed.product) IN
    [table |-> created.table,
     next_id |-> created.next_id,
     response |->
        [status |-> HTTP_201_CREATED,
         body |-> JObject(serialize(created.product)),
         headers |-> [Location |-> url_for("get_products", created.next_id)]]]

\* create_products that inserts the row first and fills it afterwards
create_products_early(tbl, nid, req) ==
    LET checked == check_content_type(req.headers, "application/json") IN
    IF checked.aborted THEN Respond(tbl, nid, checked.response)
    ELSE
    LET json == get_json(req.body) IN
    IF ~json.ok THEN Respond(tbl, nid, json.response)
    ELSE
    LET parsed == deserialize(Product, json.data)
        created == create(tbl, nid, parsed.product)
    IN
    IF ~parsed.ok
    THEN [table |-> created.table,
          next_id |-> created.next_id,
          response |-> error_handler(parsed.error)]
    ELSE
    [table |-> created.table,
     next_id |-> created.next_id,
     response |->
        [status |-> HTTP_201_CREATED,
         body |-> JObject(serialize(created.product)),
         headers |-> [Location |->
                        url_for("get_products", created.product["id"])]]]

\* create_products that keeps the id of the payload when there is one
create_products_payload_id(tbl, nid, req) ==
    LET checked == check_content_type(req.headers, "application/json") IN
    IF checked.aborted THEN Respond(tbl, nid, checked.response)
    ELSE
    LET json == get_json(req.body) IN
    IF ~json.ok THEN Respond(tbl, nid, json.response)
    ELSE
    LET parsed == deserialize(Product, json.data) IN
    IF ~parsed.ok THEN Respond(tbl, nid, error_handler(parsed.error))
    ELSE
    LET created == create(tbl, nid, parsed.product)
        given == IF "id" \in DOMAIN json.data.v /\ json.data.v["id"].t = "num"
                 THEN json.data.v["id"].v
                 ELSE created.product["id"]
        row == SetAttr(parsed.product, "id", given)
    IN
    [table |-> Append(tbl, row),
     next_id |-> created.next_id,
     response |->
        [status |-> HTTP_201_CREATED,
         body |-> JObject(serialize(row)),
         headers |-> [Location |-> url_for("get_products", row["id"])]]]

\* create_products()
create_products(tbl, nid, req) ==
    LET checked == check_content_type(req.headers, "application/json") IN
    IF checked.aborted THEN Respond(tbl, nid, checked.response)
    ELSE
    LET json == get_json(req.body) IN
    IF ~json.ok THEN Respond(tbl, nid, json.response)
    ELSE
    LET parsed == deserialize(Product, json.data) IN
    IF ~parsed.ok THEN Respond(tbl, nid, error_handler(parsed.error))
    ELSE
    LET created == create(tbl, nid, parsed.product) IN
    [table |-> created.table,
     next_id |-> created.next_id,
     response |->
        [status |-> HTTP_201_CREATED,
         body |-> JObject(serialize(created.product)),
         headers |-> [Location |->
                        url_for("get_products", created.product["id"])]]]

\* list_products that lists everything when a name is given
list_products_unfiltered(tbl, nid, req) ==
    LET arguments == req.args
        Listed(products) ==
            Respond(tbl, nid,
                [status |-> HTTP_200_OK,
                 body |-> JArray([i \in 1..Len(products) |->
                                    JObject(serialize(products[i]))]),
                 headers |-> NoHeaders])
    IN  IF "name" \in DOMAIN arguments
        THEN Listed(all(tbl))
        ELSE IF "category" \in DOMAIN arguments
        THEN IF IsCategoryName(arguments["category"])
             THEN Listed(find_by_category(tbl, Category[arguments["category"]]))
             ELSE Respond(tbl, nid, error_handler(KeyError))
        ELSE IF "available" \in DOMAIN arguments
        THEN Listed(find_by_availability(tbl, arguments["available"] # ""))
        ELSE Listed(all(tbl))

\* list_products without the last branch: the availability filter is the
\* default, on bool(None)
list_products_default(tbl, nid, req) ==
    LET arguments == req.args
        Listed(products) ==
            Respond(tbl, nid,
                [status |-> HTTP_200_OK,
                 body |-> JArray([i \in 1..Len(products) |->
                                    JObject(serialize(products[i]))]),
                 headers |-> NoHeaders])
    IN  IF "name" \in DOMAIN arguments
        THEN Listed(find_by_name(tbl, arguments["name"]))
        ELSE IF "category" \in DOMAIN arguments
        THEN IF IsCategoryName(arguments["category"])
             THEN Listed(find_by_category(tbl, Category[arguments["category"]]))
             ELSE Respond(tbl, nid, error_handler(KeyError))
        ELSE IF "available" \in DOMAIN arguments
        THEN Listed(find_by_availability(tbl, arguments["available"] # ""))
        ELSE Listed(find_by_availability(tbl, FALSE))

\* list_products that looks for category before name
list_products_category_first(tbl, nid, req) ==
    LET arguments == req.args
        Listed(products) ==
            Respond(tbl, nid,
                [status |-> HTTP_200_OK,
                 body |-> JArray([i \in 1..Len(products) |->
                                    JObject(serialize(products[i]))]),
                 headers |-> NoHeaders])
    IN  IF "category" \in DOMAIN arguments
        THEN IF IsCategoryName(arguments["category"])
             THEN Listed(find_by_category(tbl, Category[arguments["category"]]))
             ELSE Respond(tbl, nid, error_handler(KeyError))
        ELSE IF "name" \in DOMAIN arguments
        THEN Listed(find_by_name(tbl, arguments["name"]))
        ELSE IF "available" \in DOMAIN arguments
        THEN Listed(find_by_availability(tbl, arguments["available"] # ""))
        ELSE Listed(all(tbl))

\* list_products that answers an unknown category with the empty list
list_products_lenient(tbl, nid, req) ==
    LET arguments == req.args
        Listed(products) ==
            Respond(tbl, nid,
                [status |-> HTTP_200_OK,
                 body |-> JArray([i \in 1..Len(products) |->
                                    JObject(serialize(products[i]))]),
                 headers |-> NoHeaders])
    IN  IF "name" \in DOMAIN arguments
        THEN Listed(find_by_name(tbl, arguments["name"]))
        ELSE IF "category" \in DOMAIN arguments
        THEN IF IsCategoryName(arguments["category"])
             THEN Listed(find_by_category(tbl, Category[arguments["category"]]))
             ELSE Listed(<< >>)
        ELSE IF "available" \in DOMAIN arguments
        THEN Listed(find_by_availability(tbl, arguments["available"] # ""))
        ELSE Listed(all(tbl))

\* list_products()
list_products(tbl, nid, req) ==
    LET arguments == req.args
        Listed(products) ==
            Respond(tbl, nid,
                [status |-> HTTP_200_OK,
                 body |-> JArray([i \in 1..Len(products) |->
                                    JObject(serialize(products[i]))]),
                 headers |-> NoHeaders])
    IN  IF "name" \in DOMAIN arguments
        THEN Listed(find_by_name(tbl, arguments["name"]))
        ELSE IF "category" \in DOMAIN arguments
        THEN IF IsCategoryName(arguments["category"])
             THEN Listed(find_by_category(tbl, Category[arguments["category"]]))
             ELSE Respond(tbl, nid, error_handler(KeyError))
        ELSE IF "available" \in DOMAIN arguments
        THEN Listed(find_by_availability(tbl, arguments["available"] # ""))
        ELSE Listed(all(tbl))

\* get_products without the test for None: serialize fails on None
get_products_unchecked(tbl, nid, id) ==
    LET product == find(tbl, id) IN
    IF product = None THEN Respond(tbl, nid, error_handler("AttributeError"))
    ELSE Respond(tbl, nid,
            [status |-> HTTP_200_OK,
             body |-> JObject(serialize(product)),
             headers |-> NoHeaders])

\* get_products(id)
get_products(tbl, nid, id) ==
    LET product == find(tbl, id) IN
    IF product = None THEN Respond(tbl, nid, abort(HTTP_404_NOT_FOUND))
    ELSE Respond(tbl, nid,
            [status |-> HTTP_200_OK,
             body |-> JObject(serialize(product)),
             headers |-> NoHeaders])

\* update_products that creates the product when the id is not found
update_products_upsert(tbl, nid, id, req) ==
    LET checked == check_content_type(req.headers, "application/json") IN
    IF checked.aborted THEN Respond(tbl, nid, checked.response)
    ELSE
    LET json == get_json(req.body) IN
    IF ~json.ok THEN Respond(tbl, nid, json.response)
    ELSE
    LET found == find(tbl, id)
        product == IF found = None THEN Product ELSE found
        parsed == deserialize(product, json.data)
    IN
    IF ~parsed.ok
    THEN Respond(tbl, nid,
            IF found = None THEN abort(HTTP_404_NOT_FOUND)
            ELSE error_handler(parsed.error))
    ELSE IF found = None
    THEN LET created == create(tbl, nid, parsed.product) IN
         [table |-> created.table,
          next_id |-> created.next_id,
          response |->
             [status |-> HTTP_200_OK,
              body |-> JObject(serialize(created.product)),
              headers |-> NoHeaders]]
    ELSE Respond(update(tbl, parsed.product).table, nid,
            [status |-> HTTP_200_OK,
             body |-> JObject(serialize(parsed.product)),
             headers |-> NoHeaders])

\* update_products whose refused payload still reaches the row: the fields
\* set before the failure are saved
update_products_dirty(tbl, nid, id, req) ==
    LET checked == check_content_type(req.headers, "application/json") IN
    IF checked.aborted THEN Respond(tbl, nid, checked.response)
    ELSE
    LET json == get_json(req.body) IN
    IF ~json.ok THEN Respond(tbl, nid, json.response)
    ELSE
    LET product == find(tbl, id) IN
    IF product = None THEN Respond(tbl, nid, abort(HTTP_404_NOT_FOUND))
    ELSE
    LET parsed == deserialize(product, json.data)
        updated == update(tbl, parsed.product)
    IN
    IF ~parsed.ok THEN Respond(updated.table, nid, error_handler(parsed.error))
    ELSE Respond(updated.table, nid,
            [status |-> HTTP_200_OK,
             body |-> JObject(serialize(parsed.product)),
             headers |-> NoHeaders])

\* update_products without the call of product.update()
update_products_unsaved(tbl, nid, id, req) ==
    LET checked == check_content_type(req.headers, "application/json") IN
    IF checked.aborted THEN Respond(tbl, nid, checked.response)
    ELSE
    LET json == get_json(req.body) IN
    IF ~json.ok THEN Respond(tbl, nid, json.response)
    ELSE
    LET product == find(tbl, id) IN
    IF product = None THEN Respond(tbl, nid, abort(HTTP_404_NOT_FOUND))
    ELSE
    LET parsed == deserialize(product, json.data) IN
    IF ~parsed.ok THEN Respond(tbl, nid, error_handler(parsed.error))
    ELSE Respond(tbl, nid,
            [status |-> HTTP_200_OK,
             body |-> JObject(serialize(parsed.product)),
             headers |-> NoHeaders])

\* update_products(id)
update_products(tbl, nid, id, req) ==
    LET checked == check_content_type(req.headers, "application/json") IN
    IF checked.aborted THEN Respond(tbl, nid, checked.response)
    ELSE
    LET json == get_json(req.body) IN
    IF ~json.ok THEN Respond(tbl, nid, json.response)
    ELSE
    LET product == find(tbl, id) IN
    IF product = None THEN Respond(tbl, nid, abort(HTTP_404_NOT_FOUND))
    ELSE
    LET parsed == deserialize(product, json.data) IN
    IF ~parsed.ok THEN Respond(tbl, nid, error_handler(parsed.error))
    ELSE
    LET updated == update(tbl, parsed.product) IN
    IF ~updated.ok THEN Respond(tbl, nid, error_handler(updated.error))
    ELSE Respond(updated.table, nid,
            [status |-> HTTP_200_OK,
             body |-> JObject(serialize(parsed.product)),
             headers |-> NoHeaders])

\* delete_products that answers 204 also when there is nothing to delete
delete_products_idempotent(tbl, nid, id) ==
    LET product == find(tbl, id) IN
    IF product = None
    THEN Respond(tbl, nid,
            [status |-> HTTP_204_NO_CONTENT,
             body |-> EmptyBody,
             headers |-> NoHeaders])
    ELSE Respond(delete(tbl, product), nid,
            [status |-> HTTP_204_NO_CONTENT,
             body |-> EmptyBody,
             headers |-> NoHeaders])

\* delete_products(id)
delete_products(tbl, nid, id) ==
    LET product == find(tbl, id) IN
    IF product = None THEN Respond(tbl, nid, abort(HTTP_404_NOT_FOUND))
    ELSE Respond(delete(tbl, product), nid,
            [status |-> HTTP_204_NO_CONTENT,
             body |-> EmptyBody,
             headers |-> NoHeaders])

\* delete_products(id) up to the lookup: Product.find and, when it found
\* nothing, the 404; the product found is held by the request
delete_products_lookup(tbl, id) ==
    LET product == find(tbl, id) IN
    IF product = None
    THEN [found |-> FALSE, product |-> None,
          response |-> abort(HTTP_404_NOT_FOUND)]
    ELSE [found |-> TRUE, product |-> product, response |-> None]

\* a removal that answers without calling product.delete()
delete_products_remove_kept(tbl, nid, product) ==
    Respond(tbl, nid,
        [status |-> HTTP_204_NO_CONTENT,
         body |-> EmptyBody,
         headers |-> NoHeaders])

\* delete_products(id) from the lookup on: product.delete() and the 204
delete_products_remove(tbl, nid, product) ==
    Respond(delete(tbl, product), nid,
        [status |-> HTTP_204_NO_CONTENT,
         body |-> EmptyBody,
         headers |-> NoHeaders])

---------------------------------------------------------------------------
(* The requests of the clients                                             *)

PriceText(chars) == JStr(chars)

\* payloads that deserialize accepts; the first is what serialize gives for
\* a product not yet stored, the third carries an id of its own
Fedora ==
    [id |-> JNull, name |-> JStr("Fedora"), description |-> JStr("A red hat"),
     price |-> PriceText(<<"1", "2", ".", "5", "0">>),
     available |-> JBool(TRUE), category |-> JStr("CLOTHS")]

FedoraFood ==
    [name |-> JStr("Fedora"), description |-> JStr("A red hat"),
     price |-> PriceText(<<"1", "2", ".", "5">>),
     available |-> JBool(FALSE), category |-> JStr("FOOD")]

Apple ==
    [id |-> JNum(99), name |-> JStr("Apple"), description |-> JStr("A fruit"),
     price |-> PriceText(<<".", "5">>),
     available |-> JBool(TRUE), category |-> JStr("FOOD")]

ValidPayloads == {Fedora, FedoraFood, Apple}

RequiredKeys == {"name", "description", "price", "available", "category"}

\* the payload without the key k
Without(payload, k) == [a \in DOMAIN payload \ {k} |-> payload[a]]

\* the payload with value val under the key k
With(payload, k, val) ==
    [a \in DOMAIN payload |-> IF a = k THEN val ELSE payload[a]]

\* payloads with one required field missing or malformed
InvalidPayloads ==
    {Without(Apple, "name"),
     Without(Apple, "price"),
     Without(Fedora, "category"),
     With(FedoraFood, "description", JNull),
     With(Apple, "price", PriceText(<<"a", "b", "c">>)),
     With(Fedora, "available", JStr("wrong type")),
     With(Apple, "category", JStr("BOGUS"))}

\* the bodies of POST and PUT requests: JSON objects, a JSON document that
\* is no object, and a body that is no JSON at all
Bodies ==
    {JObject(p) : p \in ValidPayloads \cup InvalidPayloads} \cup {JNull, RawBody}

\* the headers of POST and PUT requests
HeaderSets ==
    {NoHeaders}
        \cup {[c \in {"Content-Type"} |-> v] :
                v \in {"application/json", "application/json; charset=utf-8"}}

\* the ids in the paths: 0 is never assigned, the last one is never reached
PathIds == 0..(MaxProducts + 1)

\* the query strings of GET /products
ArgValues ==
    [name |-> {"Fedora", "Nobody"},
     category |-> {"FOOD", "BOGUS"},
     available |-> {"True", "False"},
     page |-> {"2"}]

QueryArgs ==
    UNION {{f \in [keys -> UNION {ArgValues[k] : k \in keys}] :
                \A k \in keys : f[k] \in ArgValues[k]} :
            keys \in SUBSET (DOMAIN ArgValues)}

NoArgs == << >>

Request(method, path, headers, body, args) ==
    [method |-> method, path |-> path, headers |-> headers,
     body |-> body, args |-> args]

---------------------------------------------------------------------------
(* The service as a state machine: one request is handled at a time        *)

NoRequest == Request("", << >>, NoHeaders, RawBody, NoArgs)

NoResponse == [status |-> 0, body |-> EmptyBody, headers |-> NoHeaders]

\* the clients whose requests may overlap, and a client with no request
Clients == 1..MaxClients

IdleClient == [pc |-> "idle", id |-> 0, product |-> None, response |-> NoResponse]

Init ==
    /\ table = << >>
    /\ next_id = 1
    /\ request = NoRequest
    /\ response = NoResponse
    /\ before = << >>
    /\ written = << >>
    /\ gone = << >>
    /\ inflight = [c \in Clients |-> IdleClient]

\* the handler's result becomes the state; the histories follow the answer
Handled(req, result) ==
    /\ request' = req
    /\ response' = result.response
    /\ table' = result.table
    /\ next_id' = result.next_id
    /\ before' = table
    /\ UNCHANGED inflight

\* log with the entry of key k set to val
Record(log, k, val) ==
    [j \in DOMAIN log \cup {k} |-> IF j = k THEN val ELSE log[j]]

\* log without the entry of key k
Forget(log, k) == [j \in DOMAIN log \ {k} |-> log[j]]

\* GET /health
GetHealth ==
    /\ Handled(Request("GET", <<"health">>, NoHeaders, RawBody, NoArgs),
               Respond(table, next_id, healthcheck))
    /\ UNCHANGED <<written, gone>>

\* GET /
GetIndex ==
    /\ Handled(Request("GET", << >>, NoHeaders, RawBody, NoArgs),
               Respond(table, next_id, index))
    /\ UNCHANGED <<written, gone>>

\* POST /products
PostProducts ==
    \E headers \in HeaderSets, body \in Bodies :
        LET req == Request("POST", <<"products">>, headers, body, NoArgs)
            result == create_products(table, next_id, req)
        IN  /\ next_id <= MaxProducts
            /\ Handled(req, result)
            /\ written' =
                  IF result.response.status = HTTP_201_CREATED
                  THEN Record(written, result.response.headers["Location"],
                              body.v)
                  ELSE written
            /\ UNCHANGED gone

\* GET /products
GetProductList ==
    \E args \in QueryArgs :
        LET req == Request("GET", <<"products">>, NoHeaders, RawBody, args)
        IN  /\ Handled(req, list_products(table, next_id, req))
            /\ UNCHANGED <<written, gone>>

\* GET /products/<id>
GetProduct ==
    \E id \in PathIds :
        LET req == Request("GET", <<"products", id>>, NoHeaders, RawBody, NoArgs)
        IN  /\ Handled(req, get_products(table, next_id, id))
            /\ UNCHANGED <<written, gone>>

\* PUT /products/<id>
PutProduct ==
    \E id \in PathIds, headers \in HeaderSets, body \in Bodies :
        LET req == Request("PUT", <<"products", id>>, headers, body, NoArgs)
            result == update_products(table, next_id, id, req)
        IN  /\ Handled(req, result)
            /\ written' =
                  IF result.response.status = HTTP_200_OK
                  THEN Record(written, req.path, body.v)
                  ELSE written
            /\ UNCHANGED gone

\* DELETE /products/<id>
DeleteProduct ==
    \E id \in PathIds :
        LET req == Request("DELETE", <<"products", id>>, NoHeaders, RawBody, NoArgs)
            result == delete_products(table, next_id, id)
        IN  /\ Handled(req, result)
            /\ written' =
                  IF result.response.status = HTTP_204_NO_CONTENT
                  THEN Forget(written, req.path)
                  ELSE written
            /\ gone' =
                  IF result.response.status = HTTP_204_NO_CONTENT
                  THEN Record(gone, id, IF id \in DOMAIN gone
                                         THEN gone[id] + 1 ELSE 1)
                  ELSE gone

Next ==
    \/ GetHealth
    \/ GetIndex
    \/ PostProducts
    \/ GetProductList
    \/ GetProduct
    \/ PutProduct
    \/ DeleteProduct

Spec == Init /\ [][Next]_vars

---------------------------------------------------------------------------
(* The Product store called directly, as tests/test_models.py does         *)

\* test_update_product_with_empty_id: product.id = None
ResetId(self) == [a \in DOMAIN self \ {"id"} |-> self[a]]

\* the products of the factory: not stored, no id
NewProducts ==
    {deserialize(Product, JObject(payload)).product : payload \in ValidPayloads}

\* the products handed to update: a stored one with new field values, the
\* same with its id reset, and one that was never stored
UpdateArguments(tbl) ==
    LET changed == {deserialize(tbl[i], JObject(payload)).product :
                        i \in 1..Len(tbl), payload \in ValidPayloads}
    IN  changed \cup {ResetId(product) : product \in changed} \cup NewProducts

\* the products whose serialized form is read back: prices with 0 to 2
\* decimals (zeros at the end included), both flags with every category,
\* each with and without an id
SamplePrices ==
    {[coeff |-> c, exp |-> e] : c \in {0, 5, 50, 1250}, e \in {0, -1, -2}}

SampleProducts ==
    LET priced ==
            {[name |-> "Fedora", description |-> "A red hat", price |-> pr,
              available |-> TRUE, category |-> Category["CLOTHS"]] :
                pr \in SamplePrices}
        sorted ==
            {[name |-> "Apple", description |-> "A fruit",
              price |-> [coeff |-> 5, exp |-> -1],
              available |-> av, category |-> Category[c]] :
                av \in BOOLEAN, c \in CategoryNames}
        fields == priced \cup sorted
    IN  fields \cup {SetAttr(product, "id", 7) : product \in fields}

StoreCall(call, product) == [method |-> call, product |-> product]

StoreIdle == UNCHANGED <<written, gone, inflight>>

\* product.create()
StoreCreate ==
    \E product \in NewProducts :
        LET created == create(table, next_id, product)
        IN  /\ next_id <= MaxProducts
            /\ request' = StoreCall("create", product)
            /\ response' = [ok |-> TRUE, error |-> "", product |-> created.product]
            /\ table' = created.table
            /\ next_id' = created.next_id
            /\ before' = table
            /\ StoreIdle

\* product.update()
StoreUpdate ==
    \E product \in UpdateArguments(table) :
        LET updated == update(table, product)
        IN  /\ request' = StoreCall("update", product)
            /\ response' = [ok |-> updated.ok, error |-> updated.error,
                            product |-> product]
            /\ table' = updated.table
            /\ before' = table
            /\ UNCHANGED next_id
            /\ StoreIdle

\* product.delete()
StoreDelete ==
    \E i \in 1..Len(table) :
        /\ request' = StoreCall("delete", table[i])
        /\ response' = [ok |-> TRUE, error |-> "", product |-> table[i]]
        /\ table' = delete(table, table[i])
        /\ before' = table
        /\ UNCHANGED next_id
        /\ StoreIdle

\* Product().deserialize(product.serialize())
StoreRoundTrip ==
    \E product \in SampleProducts :
        LET data == JObject(serialize(product))
            parsed == deserialize(Product, data)
        IN  /\ request' = StoreCall("roundtrip", product)
            /\ response' = [ok |-> parsed.ok, error |-> parsed.error,
                            product |-> parsed.product, data |-> data]
            /\ before' = table
            /\ UNCHANGED <<table, next_id>>
            /\ StoreIdle

NextStore ==
    \/ StoreCreate
    \/ StoreUpdate
    \/ StoreDelete
    \/ StoreRoundTrip

SpecStore == Init /\ [][NextStore]_vars

---------------------------------------------------------------------------
(* DELETE requests that overlap: the lookup and the removal of              *)
(* delete_products are two steps, and steps of other requests may come     *)
(* between them                                                            *)

JsonHeaders == [c \in {"Content-Type"} |-> "application/json"]

\* the service after n products were created, one POST after the other
RECURSIVE Stocked(_)
Stocked(n) ==
    IF n = 0 THEN {[table |-> << >>, next_id |-> 1, written |-> << >>]}
    ELSE {LET result == create_products(s.table, s.next_id,
                            Request("POST", <<"products">>, JsonHeaders,
                                    JObject(payload), NoArgs))
          IN  [table |-> result.table, next_id |-> result.next_id,
               written |-> Record(s.written,
                                  result.response.headers["Location"],
                                  payload)] :
            s \in Stocked(n - 1), payload \in ValidPayloads}

\* the products are created and GET /health is answered; no DELETE arrived
InitConc ==
    \E n \in 0..MaxProducts : \E s \in Stocked(n) :
        /\ table = s.table
        /\ next_id = s.next_id
        /\ request = Request("GET", <<"health">>, NoHeaders, RawBody, NoArgs)
        /\ response = healthcheck
        /\ before = s.table
        /\ written = s.written
        /\ gone = << >>
        /\ inflight = [c \in Clients |-> IdleClient]

\* DELETE /products/<id> arrives and runs up to Product.find
DeleteLookup(c) ==
    \E id \in PathIds :
        LET looked == delete_products_lookup(table, id) IN
        /\ inflight[c].pc = "idle"
        /\ inflight' = [inflight EXCEPT ![c] =
                IF looked.found
                THEN [pc |-> "found", id |-> id, product |-> looked.product,
                      response |-> NoResponse]
                ELSE [pc |-> "done", id |-> id, product |-> None,
                      response |-> looked.response]]
        /\ UNCHANGED <<table, next_id, request, response, before, written, gone>>

\* the request goes on with product.delete() and answers
DeleteRemove(c) ==
    LET id == inflight[c].id
        result == delete_products_remove(table, next_id, inflight[c].product)
    IN  /\ inflight[c].pc = "found"
        /\ table' = result.table
        /\ inflight' = [inflight EXCEPT ![c] =
                [pc |-> "done", id |-> id, product |-> inflight[c].product,
                 response |-> result.response]]
        /\ written' = Forget(written, <<"products", id>>)
        /\ gone' = Record(gone, id,
                          IF id \in DOMAIN gone THEN gone[id] + 1 ELSE 1)
        /\ UNCHANGED <<next_id, request, response, before>>

NextConc ==
    \/ \E c \in Clients : DeleteLookup(c)
    \/ \E c \in Clients : DeleteRemove(c)

SpecConc == InitConc /\ [][NextConc]_vars

---------------------------------------------------------------------------
(* Vocabulary of the properties                                            *)

\* the request is for /products/<id> with this method
OnProduct(req, method) ==
    /\ req.method = method
    /\ Len(req.path) = 2
    /\ req.path[1] = "products"

\* the request is for /products with this method
OnProducts(req, method) == req.method = method /\ req.path = <<"products">>

\* the request says Content-Type: application/json, exactly
SaysJson(req) ==
    /\ "Content-Type" \in DOMAIN req.headers
    /\ req.headers["Content-Type"] = "application/json"

\* the body is a JSON object with every required field present and well
\* formed (section 6)
IsValidProduct(body) ==
    /\ body.t = "object"
    /\ RequiredKeys \subseteq DOMAIN body.v
    /\ body.v["name"].t = "str"
    /\ body.v["description"].t = "str"
    /\ body.v["price"].t = "str"
    /\ IsDecimalText(body.v["price"].v)
    /\ body.v["available"].t = "bool"
    /\ body.v["category"].t = "str"
    /\ body.v["category"].v \in CategoryNames

\* the ids of the rows of tbl
Ids(tbl) == {tbl[i]["id"] : i \in 1..Len(tbl)}

\* the serialized product shown carries the five fields of the payload; the
\* prices are compared as decimals, digit for digit
SameFields(shown, payload) ==
    /\ shown["name"] = payload["name"]
    /\ shown["description"] = payload["description"]
    /\ shown["price"].t = "str"
    /\ Decimal(shown["price"].v) = Decimal(payload["price"].v)
    /\ shown["available"] = payload["available"]
    /\ shown["category"] = payload["category"]

\* the response is code with one serialized product that has the id and
\* the fields of the payload
Shows(resp, code, id, payload) ==
    /\ resp.status = code
    /\ resp.body.t = "object"
    /\ resp.body.v["id"] = JNum(id)
    /\ SameFields(resp.body.v, payload)

---------------------------------------------------------------------------
(* C1: a POST /products with Content-Type application/json and a valid     *)
(* payload is answered 201 with a Location header and a body that carries  *)
(* an id no product had before, and a GET of that Location which follows   *)
(* is answered 200 with the name, description, price, available and        *)
(* category that were posted.                                              *)

C1_PostAnswered ==
    (OnProducts(request, "POST") /\ SaysJson(request)
        /\ IsValidProduct(request.body))
    => /\ response.status = HTTP_201_CREATED
       /\ "Location" \in DOMAIN response.headers
       /\ response.body.t = "object"
       /\ response.body.v["id"].t = "num"
       /\ response.body.v["id"].v \notin Ids(before) \cup DOMAIN gone
       /\ response.headers["Location"] = <<"products", response.body.v["id"].v>>

C1_GetOfLocation ==
    (/\ OnProducts(request, "POST")
     /\ response.status = HTTP_201_CREATED
     /\ request'.method = "GET"
     /\ request'.path = response.headers["Location"])
    => Shows(response', HTTP_200_OK, response.body.v["id"].v, request.body.v)

C1_CreateThenRead == []C1_PostAnswered /\ [][C1_GetOfLocation]_vars

C1_Witness ==
    /\ OnProducts(request, "POST")
    /\ SaysJson(request)
    /\ request.body = JObject(Apple)
    /\ response.status = HTTP_201_CREATED
    /\ response.body.v["id"] = JNum(2)
    /\ Len(table) = 2

---------------------------------------------------------------------------
(* C2: a POST /products (sent as application/json) whose payload has a     *)
(* required field missing or malformed is answered 400 and persists no     *)
(* row: the stored products are the same after the request as before it.   *)

C2_InvalidCreateRefused ==
    (OnProducts(request, "POST") /\ SaysJson(request)
        /\ ~IsValidProduct(request.body))
    => /\ response.status = HTTP_400_BAD_REQUEST
       /\ table = before

C2_Witness ==
    /\ OnProducts(request, "POST")
    /\ SaysJson(request)
    /\ request.body = JObject(Without(Fedora, "category"))
    /\ response.status = HTTP_400_BAD_REQUEST
    /\ Len(before) = 1
    /\ table = before

---------------------------------------------------------------------------
(* C3: a POST /products or PUT /products/{id} whose Content-Type header is *)
(* absent or is not exactly application/json is answered 415, whatever the *)
(* body is and, for PUT, whether or not the id exists (no 400 of the       *)
(* parser, no 404 of the lookup), and the stored products are unchanged.   *)

C3_UnsupportedMediaType ==
    ((OnProducts(request, "POST") \/ OnProduct(request, "PUT"))
        /\ ~SaysJson(request))
    => /\ response.status = HTTP_415_UNSUPPORTED_MEDIA_TYPE
       /\ table = before

C3_Witness ==
    /\ OnProduct(request, "PUT")
    /\ request.path[2] \notin Ids(before)
    /\ "Content-Type" \in DOMAIN request.headers
    /\ request.headers["Content-Type"] # "application/json"
    /\ request.body = RawBody
    /\ response.status = HTTP_415_UNSUPPORTED_MEDIA_TYPE
    /\ before # << >>

---------------------------------------------------------------------------
(* C4: GET /products/{id} is answered 200 with the serialized stored       *)
(* product when a product with that id is stored, and 404 when none is:    *)
(* an id never assigned, such as 0, or the id of a deleted product.        *)

C4_ReadOrNotFound ==
    OnProduct(request, "GET")
    => LET id == request.path[2] IN
       IF id \in Ids(table)
       THEN /\ response.status = HTTP_200_OK
            /\ \E i \in 1..Len(table) :
                  /\ table[i]["id"] = id
                  /\ response.body = JObject(serialize(table[i]))
       ELSE response.status = HTTP_404_NOT_FOUND

C4_Witness ==
    /\ OnProduct(request, "GET")
    /\ request.path[2] \in DOMAIN gone
    /\ response.status = HTTP_404_NOT_FOUND
    /\ table # << >>

---------------------------------------------------------------------------
(* C5: after a PUT /products/{id} with a valid payload on a stored product *)
(* is answered 200, the response body carries the field values of the      *)
(* payload and the id of the path, the number of stored products is        *)
(* unchanged, and every later GET /products/{id} shows the values and the  *)
(* id that were written last.                                              *)

C5_PutAnswered ==
    (OnProduct(request, "PUT") /\ SaysJson(request)
        /\ IsValidProduct(request.body) /\ request.path[2] \in Ids(before))
    => /\ Shows(response, HTTP_200_OK, request.path[2], request.body.v)
       /\ Len(table) = Len(before)
       /\ Ids(table) = Ids(before)

C5_GetAfterWrite ==
    (OnProduct(request, "GET") /\ request.path \in DOMAIN written)
    => Shows(response, HTTP_200_OK, request.path[2], written[request.path])

C5_UpdateThenRead == C5_PutAnswered /\ C5_GetAfterWrite

C5_Witness ==
    /\ OnProduct(request, "PUT")
    /\ request.path[2] = 1
    /\ request.body = JObject(Apple)
    /\ response.status = HTTP_200_OK
    /\ find(before, 1)["name"] = "Fedora"
    /\ response.body.v["id"] = JNum(1)
    /\ Len(table) = 2

---------------------------------------------------------------------------
(* C6: a PUT /products/{id} with Content-Type application/json on an id    *)
(* that no stored product has is answered 404, even when the body is a     *)
(* valid product payload, and neither creates a product nor changes one.   *)

\* the claim as it is stated: 404 whatever the body is
C6_AlwaysNotFound ==
    (OnProduct(request, "PUT") /\ SaysJson(request)
        /\ request.path[2] \notin Ids(before))
    => /\ response.status = HTTP_404_NOT_FOUND
       /\ table = before

\* C6, amended: 404 when the body is a JSON document, valid payload or not;
\* 400 when the body is no JSON, which is found before the lookup; the
\* stored products are unchanged in both cases
C6_NotFoundAfterParse ==
    (OnProduct(request, "PUT") /\ SaysJson(request)
        /\ request.path[2] \notin Ids(before))
    => /\ response.status =
            IF request.body = RawBody THEN HTTP_400_BAD_REQUEST
            ELSE HTTP_404_NOT_FOUND
       /\ table = before

C6_Witness ==
    /\ OnProduct(request, "PUT")
    /\ SaysJson(request)
    /\ request.path[2] \notin Ids(before)
    /\ IsValidProduct(request.body)
    /\ response.status = HTTP_404_NOT_FOUND
    /\ Len(before) = 1
    /\ table = before

---------------------------------------------------------------------------
(* C7: a PUT /products/{id} on a stored product with a payload that fails  *)
(* validation is answered 400 and leaves the stored product as it was: a   *)
(* GET /products/{id} that follows shows the values the product had before *)
(* the PUT, also for the fields that come before the invalid one.          *)

C7_PutRefused ==
    (OnProduct(request, "PUT") /\ SaysJson(request)
        /\ request.path[2] \in Ids(before) /\ ~IsValidProduct(request.body))
    => /\ response.status = HTTP_400_BAD_REQUEST
       /\ table = before

C7_GetAfterRefusal ==
    (/\ OnProduct(request, "PUT")
     /\ response.status = HTTP_400_BAD_REQUEST
     /\ request.path[2] \in Ids(before)
     /\ request'.method = "GET"
     /\ request'.path = request.path)
    => /\ request.path \in DOMAIN written
       /\ Shows(response', HTTP_200_OK, request.path[2], written[request.path])

C7_InvalidUpdateRefused == []C7_PutRefused /\ [][C7_GetAfterRefusal]_vars

\* the name of the payload differs from the stored one, available is invalid
C7_Witness ==
    /\ OnProduct(request, "PUT")
    /\ SaysJson(request)
    /\ request.body = JObject(With(Fedora, "available", JStr("wrong type")))
    /\ request.path[2] \in Ids(before)
    /\ find(before, request.path[2])["name"] = "Apple"
    /\ response.status = HTTP_400_BAD_REQUEST
    /\ find(table, request.path[2])["name"] = "Apple"

---------------------------------------------------------------------------
(* C8: a DELETE /products/{id} on a stored product is answered 204 with an *)
(* empty body and removes it, every later GET /products/{id} is answered   *)
(* 404 and so is a second DELETE /products/{id}; a DELETE on an id that no *)
(* product has is answered 404 and changes nothing.                        *)

C8_DeleteAnswered ==
    OnProduct(request, "DELETE")
    => LET id == request.path[2] IN
       IF id \in Ids(before)
       THEN /\ response.status = HTTP_204_NO_CONTENT
            /\ response.body = EmptyBody
            /\ id \notin Ids(table)
            /\ Len(table) = Len(before) - 1
            /\ \A i \in 1..Len(before) :
                  before[i]["id"] # id => \E j \in 1..Len(table) : table[j] = before[i]
       ELSE /\ response.status = HTTP_404_NOT_FOUND
            /\ table = before

C8_GoneForGood ==
    /\ \A id \in DOMAIN gone : gone[id] = 1 /\ id \notin Ids(table)
    /\ (OnProduct(request, "GET") /\ request.path[2] \in DOMAIN gone)
       => response.status = HTTP_404_NOT_FOUND
    /\ (OnProduct(request, "DELETE") /\ request.path[2] \in DOMAIN gone
            /\ request.path[2] \notin Ids(before))
       => response.status = HTTP_404_NOT_FOUND

C8_DeleteOnce == C8_DeleteAnswered /\ C8_GoneForGood

C8_Witness ==
    /\ OnProduct(request, "DELETE")
    /\ request.path[2] \in DOMAIN gone
    /\ response.status = HTTP_404_NOT_FOUND
    /\ table = before
    /\ table # << >>

---------------------------------------------------------------------------
(* C9: a GET /products with none of the query parameters name, category,   *)
(* available is answered 200 with an array that holds one serialized entry *)
(* per stored product, as many as were created and not deleted, and the    *)
(* empty array when nothing is stored.                                     *)

\* the response is 200 with an array that has one entry for each of the
\* paths, with the id of the path and the fields written there last, and
\* no other entry
Lists(resp, paths) ==
    /\ resp.status = HTTP_200_OK
    /\ resp.body.t = "array"
    /\ Len(resp.body.v) = Cardinality(paths)
    /\ \A path \in paths :
          \E j \in 1..Len(resp.body.v) :
              /\ resp.body.v[j].t = "object"
              /\ resp.body.v[j].v["id"] = JNum(path[2])
              /\ SameFields(resp.body.v[j].v, written[path])

C9_ListAll ==
    (OnProducts(request, "GET")
        /\ DOMAIN request.args \cap {"name", "category", "available"} = {})
    => /\ Lists(response, DOMAIN written)
       /\ Len(response.body.v) = Len(table)
       /\ table = << >> => response.body.v = << >>

C9_Witness ==
    /\ OnProducts(request, "GET")
    /\ DOMAIN request.args = {"page"}
    /\ response.status = HTTP_200_OK
    /\ Len(response.body.v) = 1
    /\ DOMAIN gone # {}

---------------------------------------------------------------------------
(* C10: GET /products?name=N is answered 200 with the stored products      *)
(* whose name is N and no other, names changed by earlier PUTs included;   *)
(* GET /products?category=C for a category name C is answered 200 with the *)
(* stored products whose category is C and no other; the array is empty    *)
(* when no stored product matches.                                         *)

C10_ListByName ==
    (OnProducts(request, "GET") /\ "name" \in DOMAIN request.args)
    => Lists(response,
             {path \in DOMAIN written :
                 written[path]["name"] = JStr(request.args["name"])})

C10_ListByCategory ==
    (OnProducts(request, "GET") /\ "name" \notin DOMAIN request.args
        /\ "category" \in DOMAIN request.args
        /\ request.args["category"] \in CategoryNames)
    => Lists(response,
             {path \in DOMAIN written :
                 written[path]["category"] = JStr(request.args["category"])})

C10_ListFiltered == C10_ListByName /\ C10_ListByCategory

C10_Witness ==
    /\ OnProducts(request, "GET")
    /\ request.args = [name |-> "Fedora"]
    /\ response.status = HTTP_200_OK
    /\ Len(response.body.v) = 1
    /\ response.body.v[1].v["id"] = JNum(2)
    /\ Len(table) = 2
    /\ written[<<"products", 1>>] = Apple
    /\ written[<<"products", 2>>] = FedoraFood

---------------------------------------------------------------------------
(* C11: GET /products?available=V, V being the text True or False, without *)
(* a name or category parameter, is answered 200 with the stored products  *)
(* whose available field is the boolean that V spells, and no other.       *)

\* the boolean that the text spells
SpelledBoolean(text) == text = "True"

\* the claim as it is stated; bool(text) of the handler is TRUE for every
\* text that is not empty, for "False" too
C11_ListByAvailability ==
    (OnProducts(request, "GET")
        /\ DOMAIN request.args \cap {"name", "category"} = {}
        /\ "available" \in DOMAIN request.args
        /\ request.args["available"] \in {"True", "False"})
    => Lists(response,
             {path \in DOMAIN written :
                 written[path]["available"]
                     = JBool(SpelledBoolean(request.args["available"]))})

---------------------------------------------------------------------------
(* C12: the update of the store, called on a product whose id is unset (a  *)
(* product never stored, or a stored one whose id was reset to None),      *)
(* fails with a validation error and changes no stored row.                *)

C12_UpdateNeedsId ==
    (request.method = "update" /\ "id" \notin DOMAIN request.product)
    => /\ ~response.ok
       /\ response.error = DataValidationError
       /\ table = before

\* the product is a stored one with its id reset
C12_Witness ==
    /\ request.method = "update"
    /\ "id" \notin DOMAIN request.product
    /\ \E i \in 1..Len(before) : ResetId(before[i]) = request.product
    /\ ~response.ok
    /\ table = before

---------------------------------------------------------------------------
(* C13: whatever POST, PUT and DELETE requests were handled, every stored  *)
(* product has an id and no two stored products have the same id; the      *)
(* product of a POST has no id before it is stored, also when the payload  *)
(* names one, and has one when create has succeeded.                       *)

C13_StoredIds ==
    /\ \A i \in 1..Len(table) : "id" \in DOMAIN table[i]
    /\ \A i, j \in 1..Len(table) : table[i]["id"] = table[j]["id"] => i = j

C13_IdFromCreate ==
    (OnProducts(request, "POST") /\ response.status = HTTP_201_CREATED)
    => /\ "id" \notin DOMAIN deserialize(Product, request.body).product
       /\ response.body.v["id"].t = "num"
       /\ response.body.v["id"].v \in Ids(table) \ Ids(before)

C13_UniqueIds == C13_StoredIds /\ C13_IdFromCreate

\* the second product was posted with the id 99 in its payload, after a
\* deletion
C13_Witness ==
    /\ OnProducts(request, "POST")
    /\ request.body = JObject(Apple)
    /\ response.status = HTTP_201_CREATED
    /\ response.body.v["id"] = JNum(2)
    /\ Len(table) = 1
    /\ DOMAIN gone = {1}

---------------------------------------------------------------------------
(* C14: for every valid product P, deserialize on the serialized form of P *)
(* gives a product whose name, description, price, available and category  *)
(* are those of P, the category having passed through the name of its      *)
(* member and the price through its text; the id is not taken from the     *)
(* payload.                                                                *)

C14_RoundTrip ==
    request.method = "roundtrip"
    => /\ response.ok
       /\ \A k \in RequiredKeys : response.product[k] = request.product[k]
       /\ "id" \notin DOMAIN response.product
       /\ response.data.v["category"] = JStr(request.product["category"].member)
       /\ response.data.v["price"].t = "str"

\* a price with a zero at the end, on a product that has an id
C14_Witness ==
    /\ request.method = "roundtrip"
    /\ "id" \in DOMAIN request.product
    /\ request.product["price"] = [coeff |-> 50, exp |-> -2]
    /\ response.data.v["price"].v = <<"0", ".", "5", "0">>
    /\ response.ok
    /\ table # << >>

---------------------------------------------------------------------------
(* C15: when GET /products has more than one of the query parameters name, *)
(* category, available, one filter is applied, the first present of name,  *)
(* category, available; the parameters after it are ignored, their values  *)
(* neither narrow the result nor are validated; the answer is the one to   *)
(* the query with that parameter alone.                                    *)

\* the first of name, category, available that the query has
FilterKeys == <<"name", "category", "available">>

ChosenKey(args) ==
    FilterKeys[CHOOSE i \in 1..3 :
                  /\ FilterKeys[i] \in DOMAIN args
                  /\ \A j \in 1..(i - 1) : FilterKeys[j] \notin DOMAIN args]

\* the query without the filter parameters that come after the chosen one
ChosenAlone(args) ==
    IF DOMAIN args \cap {"name", "category", "available"} = {} THEN args
    ELSE [k \in (DOMAIN args \ {"name", "category", "available"})
                    \cup {ChosenKey(args)} |-> args[k]]

\* every entry of the array has this value in this field
AllEntries(resp, field, val) ==
    \A j \in 1..Len(resp.body.v) : resp.body.v[j].v[field] = val

C15_OneFilterByPrecedence ==
    OnProducts(request, "GET")
    => /\ response =
            list_products(before, next_id,
                [request EXCEPT !.args = ChosenAlone(request.args)]).response
       /\ "name" \in DOMAIN request.args
            => /\ response.status = HTTP_200_OK
               /\ AllEntries(response, "name", JStr(request.args["name"]))
       /\ ("name" \notin DOMAIN request.args
                /\ "category" \in DOMAIN request.args
                /\ request.args["category"] \in CategoryNames)
            => /\ response.status = HTTP_200_OK
               /\ AllEntries(response, "category",
                             JStr(request.args["category"]))

\* a name, an unknown category and a flag: the name alone decides
C15_Witness ==
    /\ OnProducts(request, "GET")
    /\ {"name", "category", "available"} \subseteq DOMAIN request.args
    /\ request.args["name"] = "Fedora"
    /\ request.args["category"] = "BOGUS"
    /\ response.status = HTTP_200_OK
    /\ Len(response.body.v) = 1
    /\ Len(table) = 2

---------------------------------------------------------------------------
(* C16: GET /products?category=X without a name parameter, X not being the *)
(* name of a member of the category enumeration, ends in an error response *)
(* and not in a 200 with a list, empty or not, and leaves the stored       *)
(* products unchanged.                                                     *)

---------------------------------------------------------------------------
(* C17: DELETE requests for the same stored id that overlap, the lookup    *)
(* and the removal being separate steps with no lock between them.         *)

\* the clients whose DELETE of id is answered with this status
Answered(id, code) ==
    {c \in Clients : /\ inflight[c].pc = "done"
                     /\ inflight[c].id = id
                     /\ inflight[c].response.status = code}

\* C17 as stated: of the requests for one stored id at most one is answered
\* 204 and every other one 404
C17_OnlyOneDeletes ==
    \A id \in Ids(before) :
        /\ Cardinality(Answered(id, HTTP_204_NO_CONTENT)) <= 1
        /\ \A c \in Clients :
              (inflight[c].pc = "done" /\ inflight[c].id = id)
              => c \in Answered(id, HTTP_204_NO_CONTENT)
                            \cup Answered(id, HTTP_404_NOT_FOUND)

\* C17 amended: every request for a stored id is answered 204 or 404; it is
\* answered 204 exactly when its lookup came before the first removal of the
\* product, so several requests may be answered 204, and 404 only after
\* another request was answered 204; once a request was answered 204 the
\* product is gone, and no other product is touched.
C17_DeleteRace ==
    /\ \A c \in Clients :
          inflight[c].pc = "done"
          => /\ inflight[c].response.status
                    \in {HTTP_204_NO_CONTENT, HTTP_404_NOT_FOUND}
             /\ inflight[c].response.status = HTTP_204_NO_CONTENT
                    => /\ inflight[c].id \in Ids(before)
                       /\ inflight[c].id \notin Ids(table)
             /\ (inflight[c].response.status = HTTP_404_NOT_FOUND
                        /\ inflight[c].id \in Ids(before))
                    => Answered(inflight[c].id, HTTP_204_NO_CONTENT) \ {c} # {}
    /\ \A id \in Ids(before) :
          /\ id \in Ids(table) <=> Answered(id, HTTP_204_NO_CONTENT) = {}
          /\ id \in Ids(table) => find(table, id) = find(before, id)
          /\ Cardinality(Answered(id, HTTP_204_NO_CONTENT))
                = IF id \in DOMAIN gone THEN gone[id] ELSE 0
    /\ Ids(table) \subseteq Ids(before)

\* two requests for the same product, both answered 204
C17_Witness ==
    \E id \in Ids(before) :
        /\ Cardinality(Answered(id, HTTP_204_NO_CONTENT)) >= 2
        /\ id \notin Ids(table)
        /\ Len(table) = Len(before) - 1

=============================================================================
